---- MODULE Spec2Model ----
(***************************************************************************)
(* Model of the two commit-message scripts:                                *)
(*   tools/scripts/ai-commit-msg.mts      (the non-scoped variant)         *)
(*   tools/scripts/ai/ai-commit-msg.mts   (the scoped variant)             *)
(*   tools/scripts/ai/openai-client.mts   (the API-key check)              *)
(*                                                                         *)
(* A JavaScript string is a sequence of one-character strings; a path is   *)
(* the sequence of its segments (the result of split('/')); a tab-split    *)
(* line of `git diff --name-status` is a record of its status code and its *)
(* path fields.  Every subprocess, the remote completion call, the prompt  *)
(* and the editor are inputs chosen by \E in the action that awaits them.  *)
(***************************************************************************)
EXTENDS Integers, Sequences, FiniteSets, TLC

VARIABLES
  variant,      \* "single" | "scoped": which script runs
  pc,           \* position of the script
  exitCode,     \* process exit status, Running while the process lives
  outcome,      \* history: why the process ended
  stagedFiles,  \* FileStatus[] returned by getStagedFilesWithStatus
  grouped,      \* Record<string, FileStatus[]> as entries in insertion order
  scopes,       \* the sorted scope names main iterates over
  idx,          \* 1-based position of the for-loop in scopes
  message,      \* aiMessage while prompting, finalMessage while committing
  lower,        \* history: answer.trim().toLowerCase() of the last prompt
  edited,       \* history: what the last edit did ("none" when no edit ran)
  args,         \* argument list of the git commit being spawned
  commits,      \* history: one entry per git commit invocation
  stopped       \* history: the first cancellation or generation error, and
                \* the loop position it happened at

vars == <<variant, pc, exitCode, outcome, stagedFiles, grouped, scopes, idx,
          message, lower, edited, args, commits, stopped>>

----------------------------------------------------------------------------
(* Bounds *)

MaxFiles == 3

----------------------------------------------------------------------------
(* Strings *)

Whitespace == {" ", "\n", "\t"}

\* the texts the collaborators hand back (the model's reply, the edited file,
\* a diff, a typed line): empty, blank, one padded line, two lines, and a
\* text whose first line is empty
Str ==
  { <<>>,
    <<" ">>,
    <<" ", "t", " ">>,
    <<"t", "\n", "b">>,
    <<"\n", "t">> }

\* what readline's question() can return: one line, no line break in it
Lines == {s \in Str : \A i \in 1..Len(s) : s[i] # "\n"}

Undefined == <<"undefined">>

RECURSIVE TrimStart(_)
TrimStart(s) ==
  IF s # <<>> /\ Head(s) \in Whitespace THEN TrimStart(Tail(s)) ELSE s

RECURSIVE TrimEnd(_)
TrimEnd(s) ==
  IF s # <<>> /\ s[Len(s)] \in Whitespace
  THEN TrimEnd(SubSeq(s, 1, Len(s) - 1)) ELSE s

\* String.prototype.trim
Trim(s) == TrimEnd(TrimStart(s))

LowerOf(c) ==
  CASE c = "Y" -> "y"
    [] c = "N" -> "n"
    [] c = "E" -> "e"
    [] OTHER -> c

\* String.prototype.toLowerCase
ToLowerCase(s) == [i \in 1..Len(s) |-> LowerOf(s[i])]

\* raw.split(/\r?\n/) and normalized.split('\n'): the pieces between line breaks
RECURSIVE SplitLines(_, _)
SplitLines(s, cur) ==
  IF s = <<>> THEN <<cur>>
  ELSE IF Head(s) = "\n" THEN <<cur>> \o SplitLines(Tail(s), <<>>)
  ELSE SplitLines(Tail(s), Append(cur, Head(s)))

\* lines.join('\n')
RECURSIVE JoinLines(_)
JoinLines(ls) ==
  IF ls = <<>> THEN <<>>
  ELSE IF Len(ls) = 1 THEN ls[1]
  ELSE ls[1] \o <<"\n">> \o JoinLines(Tail(ls))

----------------------------------------------------------------------------
(* CommitMessage *)

Msg(t, b) == [title |-> t, body |-> b]

\* the null that askUserForDecision returns, and the unset local
Null == Msg(Undefined, Undefined)

\* `if (!title)`, `message.body && ...`: a non-empty string is truthy
Truthy(s) == s # Undefined /\ s # <<>>

\* what a function call did: returned `value`, or threw `error`
Returned(v) == [threw |-> FALSE, value |-> v, error |-> "none"]

Threw(e) == [threw |-> TRUE, value |-> Null, error |-> e]

----------------------------------------------------------------------------
(* Message Generator *)

\* a JSON field that is present but is no string: .trim() on it is a TypeError
NonString == <<"non-string">>

\* the source text of a reply that JSON.parse accepts: one non-blank line
JsonText == <<"{", "}">>

JsonFields == Str \cup {Undefined, NonString}

\* what `await client.responses.create(...)` can do:
\*   "throw": the call rejects;
\*   "text":  output_text is `text` (or undefined) and JSON.parse rejects it;
\*   "json":  output_text is an object's JSON text with these title/body fields.
Replies ==
  {[kind |-> "throw", text |-> Undefined, title |-> Undefined, body |-> Undefined]}
  \cup {[kind |-> "text", text |-> s, title |-> Undefined, body |-> Undefined] :
          s \in Str \cup {Undefined}}
  \cup {[kind |-> "json", text |-> JsonText, title |-> t, body |-> b] :
          t \in JsonFields, b \in JsonFields}

\* `x ?? ''`
OrEmpty(x) == IF x = Undefined THEN <<>> ELSE x

\* generateCommitMessage, non-scoped variant: output_text?.trim(), the JSON
\* branch, the first-line fallback of the catch, the empty-title throw
GenerateCommitMessage(reply) ==
  IF reply.kind = "throw" THEN Threw("callRejected")
  ELSE
    LET raw == IF reply.text = Undefined THEN Undefined ELSE Trim(reply.text)
    IN
    IF ~Truthy(raw) THEN Threw("noResponse")
    ELSE
      LET parsed == /\ reply.kind = "json"
                    /\ reply.title # NonString
                    /\ reply.body # NonString
          lines == SplitLines(raw, <<>>)
          title == IF parsed THEN Trim(OrEmpty(reply.title)) ELSE Trim(lines[1])
          body  == IF parsed THEN Trim(OrEmpty(reply.body))
                   ELSE Trim(JoinLines(Tail(lines)))
      IN  IF ~Truthy(title) THEN Threw("noTitle")
          ELSE Returned(Msg(title, body))

\* generateCommitMessageForScope without its `if (!title) throw`
GenerateCommitMessageForScope_NoTitleCheck(reply) ==
  IF reply.kind = "throw" THEN Threw("callRejected")
  ELSE
    LET raw == IF reply.text = Undefined THEN Undefined ELSE Trim(reply.text)
    IN
    IF ~Truthy(raw) THEN Threw("noResponse")
    ELSE
      LET parsed == /\ reply.kind = "json"
                    /\ reply.title # NonString
                    /\ reply.body # NonString
          lines == SplitLines(raw, <<>>)
          title == IF parsed THEN Trim(OrEmpty(reply.title)) ELSE Trim(lines[1])
          body  == IF parsed THEN Trim(OrEmpty(reply.body))
                   ELSE Trim(JoinLines(Tail(lines)))
      IN  Returned(Msg(title, body))

\* generateCommitMessageForScope, scoped variant: the same parsing
GenerateCommitMessageForScope(reply) ==
  IF reply.kind = "throw" THEN Threw("callRejected")
  ELSE
    LET raw == IF reply.text = Undefined THEN Undefined ELSE Trim(reply.text)
    IN
    IF ~Truthy(raw) THEN Threw("noResponse")
    ELSE
      LET parsed == /\ reply.kind = "json"
                    /\ reply.title # NonString
                    /\ reply.body # NonString
          lines == SplitLines(raw, <<>>)
          title == IF parsed THEN Trim(OrEmpty(reply.title)) ELSE Trim(lines[1])
          body  == IF parsed THEN Trim(OrEmpty(reply.body))
                   ELSE Trim(JoinLines(Tail(lines)))
      IN  IF ~Truthy(title) THEN Threw("noTitle")
          ELSE Returned(Msg(title, body))

----------------------------------------------------------------------------
(* Interactive Reviewer *)

\* what the reviewer can type at the y/e/n prompt
Answers ==
  {<<"y">>, <<" ", "Y">>, <<"n">>, <<"N", " ">>, <<"e">>, <<"E">>,
   <<>>, <<"n", "o">>}

\* answer.trim().toLowerCase()
Normalize(answer) == ToLowerCase(Trim(answer))

\* the inline edit of the non-scoped variant: a blank entry keeps the old value
InlineEdit(msg, newTitle, newBody) ==
  Msg(IF Truthy(Trim(newTitle)) THEN Trim(newTitle) ELSE msg.title,
      IF Truthy(Trim(newBody)) THEN Trim(newBody) ELSE msg.body)

\* spawnSync's status when the child did not exit normally
NullStatus == -1

\* the edited file is left as it was written
Unchanged == <<"unchanged">>

\* what the editor session can do: the temporary file cannot be written
\* (fs throws before the editor starts), the editor ends with a non-zero or no
\* status, the file cannot be read back (fs throws), or the editor exits with 0
\* and the file holds `content`
EditorRun(io, status, content) ==
  [io |-> io, status |-> status, content |-> content]

NoEditorRun == EditorRun("ok", 0, Unchanged)

EditorRuns ==
  {EditorRun("writeThrows", 0, Unchanged), EditorRun("readThrows", 0, Unchanged),
   EditorRun("ok", 1, Unchanged), EditorRun("ok", NullStatus, Unchanged)}
  \cup {EditorRun("ok", 0, c) : c \in Str \cup {Unchanged}}

InitialContent(msg) ==
  IF Truthy(msg.body) /\ Len(Trim(msg.body)) > 0
  THEN msg.title \o <<"\n", "\n">> \o msg.body \o <<"\n">>
  ELSE msg.title \o <<"\n", "\n">>

\* editCommitMessageWithEditor falling back to the proposed message when the
\* editor fails, instead of returning null
EditCommitMessageWithEditor_FallsBack(msg, run) ==
  IF run.io = "writeThrows" THEN Threw("fs")
  ELSE IF run.status # 0 THEN Returned(msg)
  ELSE IF run.io = "readThrows" THEN Threw("fs")
  ELSE
    LET edit  == IF run.content = Unchanged THEN InitialContent(msg)
                 ELSE run.content
        lines == SplitLines(edit, <<>>)
        title == Trim(lines[1])
        body  == Trim(JoinLines(Tail(lines)))
    IN  IF ~Truthy(title) THEN Returned(msg) ELSE Returned(Msg(title, body))

\* editCommitMessageWithEditor
EditCommitMessageWithEditor(msg, run) ==
  IF run.io = "writeThrows" THEN Threw("fs")
  ELSE IF run.status # 0 THEN Returned(Null)
  ELSE IF run.io = "readThrows" THEN Threw("fs")
  ELSE
    LET edit  == IF run.content = Unchanged THEN InitialContent(msg)
                 ELSE run.content
        lines == SplitLines(edit, <<>>)
        title == Trim(lines[1])
        body  == Trim(JoinLines(Tail(lines)))
    IN  IF ~Truthy(title) THEN Returned(Null) ELSE Returned(Msg(title, body))

\* the editor session is one the reviewer yields no message for: the editor
\* ended with a status other than 0, or left a first line that trims to nothing
EditorFailed(msg, run) ==
  /\ run.io = "ok"
  /\ \/ run.status # 0
     \/ LET text == IF run.content = Unchanged THEN InitialContent(msg)
                    ELSE run.content
        IN  Trim(SplitLines(text, <<>>)[1]) = <<>>

\* askUserForDecision of the non-scoped variant
AskUserForDecision(msg, answer, newTitle, newBody) ==
  LET l == Normalize(answer)
  IN  IF l = <<"n">> THEN Null
      ELSE IF l = <<"e">> THEN InlineEdit(msg, newTitle, newBody)
      ELSE msg

\* askUserForDecision of the scoped variant
AskUserForDecisionScoped(msg, answer, run) ==
  LET l == Normalize(answer)
  IN  IF l = <<"n">> THEN Returned(Null)
      ELSE IF l = <<"e">> THEN EditCommitMessageWithEditor(msg, run)
      ELSE Returned(msg)

----------------------------------------------------------------------------
(* Staged files *)

\* one line of `git diff --cached --name-status --find-renames`, split on
\* tabs: parts[0] is `code`, the remaining parts are `paths`
NameStatusLine(code, paths) == [code |-> code, paths |-> paths]

Digits == {"0", "1", "2", "3", "4", "5", "6", "7", "8", "9"}

\* statusCode.replace(/\d+$/, ''): R100 -> R, C75 -> C
RECURSIVE StripScore(_)
StripScore(code) ==
  IF code # <<>> /\ code[Len(code)] \in Digits
  THEN StripScore(SubSeq(code, 1, Len(code) - 1)) ELSE code

FileStatus(status, file, oldFile) ==
  [status |-> status, file |-> file, oldFile |-> oldFile]

\* the parsing loop of getStagedFilesWithStatus
RECURSIVE ParseNameStatus(_)
ParseNameStatus(lines) ==
  IF lines = <<>> THEN <<>>
  ELSE
    LET line   == Head(lines)
        status == StripScore(line.code)
        rest   == ParseNameStatus(Tail(lines))
    IN
    IF Len(line.paths) < 1 THEN rest
    ELSE IF status = <<"R">> \/ status = <<"C">>
    THEN IF Len(line.paths) >= 2
         THEN <<FileStatus(status, line.paths[2], line.paths[1])>> \o rest
         ELSE rest
    ELSE <<FileStatus(status, line.paths[1], Undefined)>> \o rest

\* the lines git can print for the staged changes of the modelled repository
GitLines ==
  { NameStatusLine(<<"M">>, <<(<<"README.md">>)>>),
    NameStatusLine(<<"M">>, <<(<<"apps", "foo", "a.ts">>)>>),
    NameStatusLine(<<"D">>, <<(<<"libs", "apps2", "d.ts">>)>>),
    NameStatusLine(<<"M">>, <<(<<"apps">>)>>),
    NameStatusLine(<<"M">>, <<(<<"apps", "constructor", "e.ts">>)>>),
    NameStatusLine(<<"R", "1", "0", "0">>,
                   <<(<<"apps", "foo", "old.ts">>), (<<"apps", "bar", "new.ts">>)>>),
    NameStatusLine(<<"C", "7", "5">>,
                   <<(<<"apps", "foo", "a.ts">>), (<<"libs", "foo", "b.ts">>)>>),
    NameStatusLine(<<"C", "7", "5">>,
                   <<(<<"apps", "foo", "a.ts">>), (<<"libs", "bar", "a2.ts">>)>>) }

\* the path a line names as changed: its last field
TargetOf(line) == line.paths[Len(line.paths)]

\* the outputs of the name-status command: up to n lines, in any order
\* (diff.orderFile decides the order)
RECURSIVE Listings(_)
Listings(n) ==
  IF n = 0 THEN {<<>>}
  ELSE LET shorter == Listings(n - 1)
       IN  shorter \cup
           {Append(l, x) : l \in {t \in shorter : Len(t) = n - 1},
                           x \in GitLines}

\* git lists no path twice
StagedListings ==
  {l \in Listings(MaxFiles) :
     \A i, j \in 1..Len(l) : i # j => TargetOf(l[i]) # TargetOf(l[j])}

----------------------------------------------------------------------------
(* Scope Grouper *)

\* property names every object literal inherits from Object.prototype
ObjectPrototypeKeys ==
  {"constructor", "__proto__", "toString", "valueOf", "hasOwnProperty",
   "isPrototypeOf", "propertyIsEnumerable", "toLocaleString"}

\* position of the own property `scope` in the entries, 0 when there is none
OwnIndex(groups, scope) ==
  IF \E i \in 1..Len(groups) : groups[i].scope = scope
  THEN CHOOSE i \in 1..Len(groups) : groups[i].scope = scope
  ELSE 0

\* the scope of one entry: `const [first, second] = file.split('/')`
ScopeOf(file) ==
  IF /\ (file[1] = "apps" \/ file[1] = "libs")
     /\ Len(file) >= 2
     /\ file[2] # ""
  THEN file[2] ELSE "root"

\* the for-loop of groupFilesByScope over files[i..]; `groups` is a plain
\* object, so groups[scope] also finds what Object.prototype defines, and
\* .push on that is a TypeError
RECURSIVE GroupLoop(_, _, _)
GroupLoop(files, i, groups) ==
  IF i > Len(files) THEN [threw |-> FALSE, value |-> groups]
  ELSE
    LET scope == ScopeOf(files[i].file)
        own   == OwnIndex(groups, scope)
    IN
    IF own # 0
    THEN GroupLoop(files, i + 1,
           [groups EXCEPT ![own].files = Append(@, files[i])])
    ELSE IF scope \in ObjectPrototypeKeys
    THEN [threw |-> TRUE, value |-> <<>>]
    ELSE GroupLoop(files, i + 1,
           Append(groups, [scope |-> scope, files |-> <<files[i]>>]))

GroupFilesByScope(files) == GroupLoop(files, 1, <<>>)

\* Object.keys(grouped): own keys in insertion order
Keys(groups) == [i \in 1..Len(groups) |-> groups[i].scope]

\* grouped[scope]
FilesOf(groups, scope) == groups[OwnIndex(groups, scope)].files

\* position of a name in the collation order of String.prototype.localeCompare
CollationRank(s) ==
  CASE s = "apps2" -> 1
    [] s = "bar" -> 2
    [] s = "constructor" -> 3
    [] s = "foo" -> 4
    [] s = "root" -> 5

\* a.localeCompare(b)
LocaleCompare(a, b) ==
  IF CollationRank(a) < CollationRank(b) THEN -1
  ELSE IF CollationRank(a) > CollationRank(b) THEN 1 ELSE 0

\* the comparator without its two root cases
ScopeCompare_NoRoot(a, b) == LocaleCompare(a, b)

\* the comparator main hands to sort
ScopeCompare(a, b) ==
  IF a = "root" THEN -1
  ELSE IF b = "root" THEN 1
  ELSE LocaleCompare(a, b)

\* x put into the sorted sequence s, after everything that does not follow it
RECURSIVE SortedInsert(_, _)
SortedInsert(s, x) ==
  IF s = <<>> THEN <<x>>
  ELSE IF ScopeCompare(x, Head(s)) < 0 THEN <<x>> \o s
  ELSE <<Head(s)>> \o SortedInsert(Tail(s), x)

\* Array.prototype.sort with that comparator
RECURSIVE SortScopes(_)
SortScopes(keys) ==
  IF keys = <<>> THEN <<>>
  ELSE SortedInsert(SortScopes(SubSeq(keys, 1, Len(keys) - 1)), keys[Len(keys)])

----------------------------------------------------------------------------
(* Commit Runner *)

\* a literal argument of the git command line
Lit(s) == <<s>>

\* [...new Set(xs)]: first occurrences, in order
RECURSIVE Dedup(_)
Dedup(xs) ==
  IF xs = <<>> THEN <<>>
  ELSE LET front == Dedup(SubSeq(xs, 1, Len(xs) - 1))
           x     == xs[Len(xs)]
       IN  IF \E i \in 1..Len(front) : front[i] = x THEN front
           ELSE Append(front, x)

\* files.filter(f => f.oldFile !== undefined).map(f => f.oldFile)
RECURSIVE OldFilePaths(_)
OldFilePaths(files) ==
  IF files = <<>> THEN <<>>
  ELSE IF Head(files).oldFile # Undefined
  THEN <<Head(files).oldFile>> \o OldFilePaths(Tail(files))
  ELSE OldFilePaths(Tail(files))

\* allPaths without the Set: the two lists concatenated
AllPaths_NoDedup(files) ==
  [i \in 1..Len(files) |-> files[i].file] \o OldFilePaths(files)

\* allPaths of runGitCommitForScope
AllPaths(files) ==
  Dedup([i \in 1..Len(files) |-> files[i].file] \o OldFilePaths(files))

\* args of runGitCommit
RunGitCommitArgs(msg) ==
  <<Lit("commit"), Lit("-m"), msg.title>>
  \o (IF Truthy(msg.body) /\ Len(Trim(msg.body)) > 0
      THEN <<Lit("-m"), msg.body>> ELSE <<>>)

\* args of runGitCommitForScope
RunGitCommitForScopeArgs(msg, files) ==
  <<Lit("commit"), Lit("-m"), msg.title>>
  \o (IF Truthy(msg.body) /\ Len(Trim(msg.body)) > 0
      THEN <<Lit("-m"), msg.body>> ELSE <<>>)
  \o <<Lit("--")>> \o AllPaths(files)

\* process.exit(result.status ?? 1)
ExitStatusOf(status) == IF status = NullStatus THEN 1 ELSE status

\* the statuses a git or editor child can end with
ChildStatuses == {0, 1, 128, NullStatus}

----------------------------------------------------------------------------
(* The process *)

\* exitCode of a process that has not ended
Running == -1

\* one git commit invocation: the scope it is for, the paths after `--`, and
\* the status spawnSync returned once it has returned
Invocation(scope, paths) ==
  [scope |-> scope, paths |-> paths, returned |-> FALSE, status |-> 0]

NotStopped == [at |-> 0, why |-> "none"]

\* the errors generateCommitMessage and generateCommitMessageForScope raise
GenerationErrors == {"callRejected", "noResponse", "noTitle"}

\* the paths some successful commit of this run has already committed
CommittedPaths ==
  UNION {{commits[i].paths[k] : k \in 1..Len(commits[i].paths)} :
           i \in {j \in 1..Len(commits) :
                    commits[j].returned /\ commits[j].status = 0}}

\* `git diff --cached -- <allPaths>` has something to print: a path the scope
\* changes (a file, or the source a rename removes) is still staged
HasStagedChanges(files) ==
  \E i \in 1..Len(files) :
     \/ files[i].file \notin CommittedPaths
     \/ files[i].status = <<"R">> /\ files[i].oldFile \notin CommittedPaths

Init ==
  /\ variant \in {"single", "scoped"}
  /\ pc = "start"
  /\ exitCode = Running
  /\ outcome = "running"
  /\ stagedFiles = <<>>
  /\ grouped = <<>>
  /\ scopes = <<>>
  /\ idx = 0
  /\ message = Null
  /\ lower = Undefined
  /\ edited = "none"
  /\ args = <<>>
  /\ commits = <<>>
  /\ stopped = NotStopped

\* process.exit(code), or main returning and the event loop running empty
\* (code 0): the process and its locals are gone, the history stays
Exit(code, why) ==
  /\ pc' = "exited"
  /\ exitCode' = code
  /\ outcome' = why
  /\ message' = Null
  /\ lower' = Undefined
  /\ edited' = "none"
  /\ args' = <<>>

\* the script goes on to position p
Goto(p) ==
  /\ pc' = p
  /\ UNCHANGED <<exitCode, outcome>>

\* non-scoped script, module top level: `if (!apiKey) process.exit(1)`
CheckApiKey ==
  /\ pc = "start"
  /\ variant = "single"
  /\ \E apiKey \in BOOLEAN :
       IF ~apiKey THEN Exit(1, "noKey")
       ELSE Goto("main") /\ UNCHANGED <<message, lower, edited, args>>
  /\ UNCHANGED <<variant, stagedFiles, grouped, scopes, idx, commits, stopped>>

\* scoped script, module top level: createOpenAIClient('ai-commit')
CreateOpenAIClient ==
  /\ pc = "start"
  /\ variant = "scoped"
  /\ \E apiKey \in BOOLEAN :
       IF ~apiKey THEN Exit(1, "noKey")
       ELSE Goto("main") /\ UNCHANGED <<message, lower, edited, args>>
  /\ UNCHANGED <<variant, stagedFiles, grouped, scopes, idx, commits, stopped>>

\* getStagedDiff: execSync throws, or returns the diff text
GetStagedDiff ==
  /\ pc = "main"
  /\ variant = "single"
  /\ \/ Exit(1, "diffFail")
     \/ \E diff \in Str :
          IF ~Truthy(Trim(diff)) THEN Exit(1, "empty")
          ELSE Goto("generate") /\ UNCHANGED <<message, lower, edited, args>>
  /\ UNCHANGED <<variant, stagedFiles, grouped, scopes, idx, commits, stopped>>

\* main of the non-scoped script: await generateCommitMessage(diff), and the
\* catch that exits with 1
Generate ==
  /\ pc = "generate"
  /\ variant = "single"
  /\ \E reply \in Replies :
       LET r == GenerateCommitMessage(reply)
       IN  IF r.threw
           THEN /\ Exit(1, "genFail")
                /\ stopped' = [at |-> idx, why |-> r.error]
           ELSE /\ Goto("ask")
                /\ message' = r.value
                /\ UNCHANGED <<lower, edited, args, stopped>>
  /\ UNCHANGED <<variant, stagedFiles, grouped, scopes, idx, commits>>

\* main of the non-scoped script from the prompt on: askUserForDecision, the
\* return on null, and runGitCommit up to the spawn of git
Ask ==
  /\ pc = "ask"
  /\ variant = "single"
  /\ \E answer \in Answers, newTitle \in Lines, newBody \in Lines :
       LET l     == Normalize(answer)
           final == AskUserForDecision(message, answer, newTitle, newBody)
       IN  /\ l # <<"e">> => newTitle = <<>> /\ newBody = <<>>
           /\ stopped' = IF l = <<"n">> THEN [at |-> idx, why |-> "n"]
                         ELSE stopped
           /\ IF final = Null
              THEN /\ Exit(0, "cancel")
                   /\ UNCHANGED commits
              ELSE /\ Goto("committing")
                   /\ lower' = l
                   /\ edited' = IF l = <<"e">> THEN "done" ELSE "none"
                   /\ message' = final
                   /\ args' = RunGitCommitArgs(final)
                   /\ commits' = Append(commits, Invocation("", <<>>))
  /\ UNCHANGED <<variant, stagedFiles, grouped, scopes, idx>>

\* runGitCommit after spawnSync returned, and the end of main
CommitReturns ==
  /\ pc = "committing"
  /\ variant = "single"
  /\ \E status \in ChildStatuses :
       /\ commits' = [commits EXCEPT ![Len(commits)] =
                        [@ EXCEPT !.returned = TRUE, !.status = status]]
       /\ IF status # 0
          THEN Exit(ExitStatusOf(status), "commitFail")
          ELSE Exit(0, "success")
  /\ UNCHANGED <<variant, stagedFiles, grouped, scopes, idx, stopped>>

\* main of the scoped script up to the loop: getStagedFilesWithStatus,
\* groupFilesByScope, the sort of the scope names
ListAndGroup ==
  /\ pc = "main"
  /\ variant = "scoped"
  /\ \/ /\ Exit(1, "diffFail")
        /\ UNCHANGED <<stagedFiles, grouped, scopes, idx>>
     \/ \E listing \in StagedListings :
          IF listing = <<>>
          THEN /\ Exit(1, "empty")
               /\ UNCHANGED <<stagedFiles, grouped, scopes, idx>>
          ELSE
            LET files == ParseNameStatus(listing)
                g     == GroupFilesByScope(files)
            IN  /\ stagedFiles' = files
                /\ IF g.threw
                   THEN /\ Exit(1, "exception")
                        /\ UNCHANGED <<grouped, scopes, idx>>
                   ELSE /\ grouped' = g.value
                        /\ scopes' = SortScopes(Keys(g.value))
                        /\ idx' = 1
                        /\ Goto("diff")
                        /\ UNCHANGED <<message, lower, edited, args>>
  /\ UNCHANGED <<variant, commits, stopped>>

\* getScopedDiff for the scope of this iteration
GetScopedDiff ==
  /\ pc = "diff"
  /\ variant = "scoped"
  /\ \E status \in ChildStatuses, stdout \in Str :
       IF status # 0 THEN Exit(1, "diffFail") /\ stdout = <<>>
       ELSE IF ~Truthy(Trim(stdout)) THEN Exit(1, "empty")
       ELSE /\ HasStagedChanges(FilesOf(grouped, scopes[idx]))
            /\ Goto("generate")
            /\ UNCHANGED <<message, lower, edited, args>>
  /\ UNCHANGED <<variant, stagedFiles, grouped, scopes, idx, commits, stopped>>

\* the loop body: await generateCommitMessageForScope, and the catch that
\* exits with 1
GenerateForScope ==
  /\ pc = "generate"
  /\ variant = "scoped"
  /\ \E reply \in Replies :
       LET r == GenerateCommitMessageForScope(reply)
       IN  IF r.threw
           THEN /\ Exit(1, "genFail")
                /\ stopped' = [at |-> idx, why |-> r.error]
           ELSE /\ Goto("ask")
                /\ message' = r.value
                /\ UNCHANGED <<lower, edited, args, stopped>>
  /\ UNCHANGED <<variant, stagedFiles, grouped, scopes, idx, commits>>

\* main without `if (!finalMessage) return`: runGitCommitForScope reads
\* message.title of null, and the TypeError reaches main().catch
MainAfterDecision_NoNullCheck(r, l) ==
  IF r.threw \/ r.value = Null
  THEN /\ Exit(1, "exception")
       /\ UNCHANGED commits
  ELSE /\ Goto("committing")
       /\ lower' = l
       /\ edited' = IF l = <<"e">> THEN "done" ELSE "none"
       /\ message' = r.value
       /\ args' = RunGitCommitForScopeArgs(r.value, FilesOf(grouped, scopes[idx]))
       /\ commits' = Append(commits,
            Invocation(scopes[idx], AllPaths(FilesOf(grouped, scopes[idx]))))

\* what main does with the reviewer's result r to the answer l: an exception
\* reaches main().catch, null returns from main, a message is committed
MainAfterDecision(r, l) ==
  IF r.threw
  THEN /\ Exit(1, "exception")
       /\ UNCHANGED commits
  ELSE IF r.value = Null
  THEN /\ Exit(0, IF l = <<"n">> THEN "cancel" ELSE "editCancel")
       /\ UNCHANGED commits
  ELSE /\ Goto("committing")
       /\ lower' = l
       /\ edited' = IF l = <<"e">> THEN "done" ELSE "none"
       /\ message' = r.value
       /\ args' = RunGitCommitForScopeArgs(r.value, FilesOf(grouped, scopes[idx]))
       /\ commits' = Append(commits,
            Invocation(scopes[idx], AllPaths(FilesOf(grouped, scopes[idx]))))

\* the loop body from the prompt on: askUserForDecision (with the editor), the
\* return on null, and runGitCommitForScope up to the spawn of git
AskForScope ==
  /\ pc = "ask"
  /\ variant = "scoped"
  /\ \E answer \in Answers, run \in EditorRuns :
       /\ Normalize(answer) # <<"e">> => run = NoEditorRun
       /\ stopped' =
            IF Normalize(answer) = <<"n">> THEN [at |-> idx, why |-> "n"]
            ELSE IF Normalize(answer) = <<"e">> /\ EditorFailed(message, run)
            THEN [at |-> idx, why |-> "editFail"]
            ELSE stopped
       /\ MainAfterDecision(AskUserForDecisionScoped(message, answer, run),
                            Normalize(answer))
  /\ UNCHANGED <<variant, stagedFiles, grouped, scopes, idx>>

\* what main does once runGitCommitForScope returned: the next scope, or the
\* end of the loop and of main
NextScope ==
  /\ message' = Null
  /\ lower' = Undefined
  /\ edited' = "none"
  /\ args' = <<>>
  /\ IF idx < Len(scopes)
     THEN /\ idx' = idx + 1
          /\ Goto("diff")
     ELSE /\ pc' = "exited"
          /\ exitCode' = 0
          /\ outcome' = "success"
          /\ UNCHANGED idx

\* runGitCommitForScope without its check of result.status
CommitForScopeReturns_IgnoresStatus ==
  /\ pc = "committing"
  /\ variant = "scoped"
  /\ \E status \in ChildStatuses :
       /\ commits' = [commits EXCEPT ![Len(commits)] =
                        [@ EXCEPT !.returned = TRUE, !.status = status]]
       /\ NextScope
  /\ UNCHANGED <<variant, stagedFiles, grouped, scopes, stopped>>

\* runGitCommitForScope after spawnSync returned, and the step of the loop
CommitForScopeReturns ==
  /\ pc = "committing"
  /\ variant = "scoped"
  /\ \E status \in ChildStatuses :
       /\ commits' = [commits EXCEPT ![Len(commits)] =
                        [@ EXCEPT !.returned = TRUE, !.status = status]]
       /\ IF status # 0
          THEN /\ Exit(ExitStatusOf(status), "commitFail")
               /\ UNCHANGED idx
          ELSE NextScope
  /\ UNCHANGED <<variant, stagedFiles, grouped, scopes, stopped>>

Next ==
  \/ CheckApiKey
  \/ GetStagedDiff
  \/ Generate
  \/ Ask
  \/ CommitReturns
  \/ CreateOpenAIClient
  \/ ListAndGroup
  \/ GetScopedDiff
  \/ GenerateForScope
  \/ AskForScope
  \/ CommitForScopeReturns

Spec == Init /\ [][Next]_vars

----------------------------------------------------------------------------
(* Properties *)

\* the values of a sequence
Range(s) == {s[i] : i \in 1..Len(s)}

\* the commits of the run are those of the scopes before position k, in the
\* order of the loop, each returned with status 0
CommitsAreScopesBefore(k) ==
  /\ Len(commits) = k - 1
  /\ \A i \in 1..Len(commits) :
       /\ commits[i].scope = scopes[i]
       /\ commits[i].returned
       /\ commits[i].status = 0

\* C1, as stated: in both variants, whenever the reviewer answers n at a
\* prompt, the run makes no git commit invocation at all and the process ends
\* with status 0, whichever scope's prompt received the n.
C1_ZeroCommitsInRun ==
  stopped.why = "n" =>
    /\ pc = "exited"
    /\ exitCode = 0
    /\ commits = <<>>

\* C1, amended: whenever the reviewer answers n at a prompt, the process ends
\* there with status 0 and without a commit for that prompt's message: the
\* non-scoped variant has made no commit invocation, the scoped variant only
\* those of the scopes before the one whose prompt received the n, each
\* returned with status 0.
C1_NoCommitFromCancelOn ==
  stopped.why = "n" =>
    /\ pc = "exited"
    /\ exitCode = 0
    /\ variant = "single" => commits = <<>>
    /\ variant = "scoped" => CommitsAreScopesBefore(stopped.at)

\* n at the prompt of the third scope, after two commits
C1_Witness ==
  /\ stopped = [at |-> 3, why |-> "n"]
  /\ variant = "scoped"
  /\ Len(commits) = 2

\* C2: the exit status is decided by the outcome: 0 on success and on
\* cancellation; 1 on a missing API key, a failed git diff, nothing staged, a
\* failed generation; the status of git commit (1 when it is null) on a failed
\* commit; and no other outcome ends with a status other than 0.
C2_ExitStatusByOutcome ==
  pc = "exited" =>
    /\ exitCode = 0 <=> outcome \in {"success", "cancel", "editCancel"}
    /\ outcome \in {"noKey", "diffFail", "empty", "genFail"} => exitCode = 1
    /\ outcome = "commitFail" =>
         LET s == commits[Len(commits)].status
         IN  s # 0 /\ exitCode = (IF s = NullStatus THEN 1 ELSE s)
    /\ exitCode # 0 =>
         outcome \in {"noKey", "diffFail", "empty", "genFail", "commitFail"}

\* the scope C3 gives a path: the second segment under apps/ or libs/
ExpectedScope(file) ==
  IF Len(file) >= 2 /\ file[1] \in {"apps", "libs"} THEN file[2] ELSE "root"

\* where the entries of the groups are: <<group, position>>
GroupedPositions ==
  {<<g, k>> \in (1..Len(grouped)) \X (1..MaxFiles + 1) :
     k <= Len(grouped[g].files)}

\* C3: groupFilesByScope partitions every list of FileStatus: each entry is
\* in exactly one group, exactly once, no group holds anything else, the group
\* of an entry is the second segment of its path under apps/ or libs/ and
\* root otherwise, and a group keeps the input order.
C3_GroupingIsPartition ==
  (variant = "scoped" /\ stagedFiles # <<>>) =>
    /\ \A i \in 1..Len(stagedFiles) :
         /\ Cardinality({p \in GroupedPositions :
              grouped[p[1]].files[p[2]] = stagedFiles[i]}) = 1
         /\ \A p \in GroupedPositions :
              grouped[p[1]].files[p[2]] = stagedFiles[i] =>
                grouped[p[1]].scope = ExpectedScope(stagedFiles[i].file)
    /\ \A p \in GroupedPositions :
         grouped[p[1]].files[p[2]] \in Range(stagedFiles)
    /\ \A g, h \in 1..Len(grouped) :
         g # h => grouped[g].scope # grouped[h].scope
    /\ \A p, q \in GroupedPositions :
         p[1] = q[1] /\ p[2] < q[2] =>
           \E i, j \in 1..Len(stagedFiles) :
              /\ i < j
              /\ stagedFiles[i] = grouped[p[1]].files[p[2]]
              /\ stagedFiles[j] = grouped[q[1]].files[q[2]]

\* C3 where groupFilesByScope returns: the same partition, for the lists
\* whose scopes are no property names of Object.prototype
C3_PartitionWhenReturned ==
  (\A i \in 1..Len(stagedFiles) :
      ExpectedScope(stagedFiles[i].file) \notin ObjectPrototypeKeys)
    => C3_GroupingIsPartition

\* C4: the scoped variant processes the scopes in an order the set of group
\* names fixes: root first when present, the others ascending; the order git
\* listed the files in does not matter.
C4_ScopeOrder ==
  (variant = "scoped" /\ scopes # <<>>) =>
    /\ Range(scopes) = {ExpectedScope(f.file) : f \in Range(stagedFiles)}
    /\ \A i, j \in 1..Len(scopes) :
         i < j => \/ scopes[i] = "root"
                  \/ /\ scopes[j] # "root"
                     /\ CollationRank(scopes[i]) < CollationRank(scopes[j])
    /\ idx \in 1..Len(scopes)
    /\ Len(commits) \in {idx - 1, idx}
    /\ \A i \in 1..Len(commits) : commits[i].scope = scopes[i]

\* the groups {bar, root, apps2}, listed by git with bar first, all committed
\* in the order root, apps2, bar
C4_Witness ==
  /\ scopes = <<"root", "apps2", "bar">>
  /\ ExpectedScope(stagedFiles[1].file) = "bar"
  /\ Len(commits) = 3
  /\ outcome = "success"

\* position of the first entry whose oldFile is p
FirstWithOldFile(files, p) ==
  CHOOSE i \in 1..Len(files) :
    /\ files[i].oldFile = p
    /\ \A j \in 1..(i - 1) : files[j].oldFile # p

\* C5: the argument list of git is commit, one -m <title>, a second
\* -m <body> exactly when the body is non-empty after trimming, never more
\* than two -m; in the scoped variant it ends with -- and the union of the
\* scope's file and oldFile paths, each once, the file paths first in
\* insertion order, then the oldFile paths not yet listed.
C5_CommitArguments ==
  pc = "committing" =>
    LET hasBody == Trim(message.body) # <<>>
        k       == IF hasBody THEN 5 ELSE 3
        files   == FilesOf(grouped, scopes[idx])
        paths   == SubSeq(args, k + 2, Len(args))
        n       == Len(files)
    IN  /\ Len(args) >= k
        /\ args[1] = Lit("commit")
        /\ args[2] = Lit("-m")
        /\ args[3] = message.title
        /\ hasBody => args[4] = Lit("-m") /\ args[5] = message.body
        /\ Cardinality({i \in 1..Len(args) : args[i] = Lit("-m")})
             = (IF hasBody THEN 2 ELSE 1)
        /\ variant = "single" => Len(args) = k
        /\ variant = "scoped" =>
             /\ Len(args) > k
             /\ args[k + 1] = Lit("--")
             /\ \A i, j \in 1..Len(paths) : i # j => paths[i] # paths[j]
             /\ Range(paths) =
                  {f.file : f \in Range(files)}
                  \cup {f.oldFile : f \in {g \in Range(files) : g.oldFile # Undefined}}
             /\ Len(paths) >= n
             /\ \A i \in 1..n : paths[i] = files[i].file
             /\ \A i, j \in (n + 1)..Len(paths) :
                  i < j => FirstWithOldFile(files, paths[i])
                             < FirstWithOldFile(files, paths[j])

\* a scoped commit with a body, of a scope where a copy's source is also a
\* file of the scope, so that the union drops a duplicate
C5_Witness ==
  /\ pc = "committing"
  /\ variant = "scoped"
  /\ Len(args) > 6
  /\ args[4] = Lit("-m")
  /\ \E f, g \in Range(FilesOf(grouped, scopes[idx])) : f.oldFile = g.file

\* C6: the Message Generator returns no message whose title is empty or
\* blank: a blank extracted title raises the error, and then nothing is
\* committed for that message; every git commit carries a title that is
\* non-empty after trimming, also after an edit.
C6_TitleNeverBlank ==
  /\ pc \in {"ask", "committing"} =>
       message.title # Undefined /\ Trim(message.title) # <<>>
  /\ pc = "committing" => Trim(args[3]) # <<>>
  /\ stopped.why = "noTitle" =>
       /\ pc = "exited"
       /\ exitCode = 1
       /\ Len(commits) = (IF variant = "single" THEN 0 ELSE stopped.at - 1)

\* the reply of the second scope had a blank title, after one commit
C6_Witness ==
  /\ stopped = [at |-> 2, why |-> "noTitle"]
  /\ Len(commits) = 1

\* C7: in the scoped variant a cancellation with n or a failed generation at
\* scope k ends the run there: nothing runs for scope k or a later one, the
\* commits of the run are exactly those of the scopes before k; and a commit
\* is only invoked after the commits of all earlier scopes returned 0.
C7_StopsAtFirstFailure ==
  variant = "scoped" =>
    /\ stopped.why \in {"n"} \cup GenerationErrors =>
         /\ pc = "exited"
         /\ idx = stopped.at
         /\ CommitsAreScopesBefore(stopped.at)
    /\ \A i \in 1..Len(commits) :
         /\ commits[i].scope = scopes[i]
         /\ i < Len(commits) => commits[i].returned /\ commits[i].status = 0

\* generation fails at the second of three scopes, after one commit
C7_Witness ==
  /\ variant = "scoped"
  /\ Len(scopes) = 3
  /\ stopped.at = 2
  /\ stopped.why \in GenerationErrors
  /\ Len(commits) = 1

C9_FailedEditCancels ==
  stopped.why = "editFail" =>
    /\ variant = "scoped"
    /\ pc = "exited"
    /\ exitCode = 0
    /\ outcome = "editCancel"
    /\ idx = stopped.at
    /\ CommitsAreScopesBefore(stopped.at)

\* the edit of the second scope's message fails, after one commit
C9_Witness ==
  /\ stopped = [at |-> 2, why |-> "editFail"]
  /\ Len(commits) = 1
  /\ Len(scopes) >= 2

\* C10: git commit is invoked for a message only after the reviewer answered
\* y, or answered e and completed the edit; after any other answer no commit
\* is invoked for it.
C10_CommitOnlyAfterApproval ==
  pc = "committing" =>
    \/ lower = <<"y">>
    \/ lower = <<"e">> /\ edited = "done"

====
